---- MODULE Spec2Model ----
(***************************************************************************)
(* WordPress data extractor (main.py): one run of main() after the button  *)
(* is pressed.  The run validates the site, walks the pages of the posts   *)
(* (and optionally categories and tags) collections through a shared       *)
(* session mounted with a Retry adapter, builds one flat row per post and  *)
(* exports the rows.  The site is the environment: every answer to an HTTP *)
(* attempt, every page body and every header is chosen nondeterministically*)
(* from the small sets below.                                              *)
(***************************************************************************)
EXTENDS Integers, Sequences, FiniteSets, TLC

VARIABLES
    pc,                 \* where main() is
    categories_option,  \* sidebar checkbox
    tags_option,        \* sidebar checkbox
    probe,              \* answers received by the validator's requests.get
    retry_count,        \* retries the adapter has made for the pending session.get
    last_retries,       \* retries the adapter made in the last loop pass (0 when it made no request)
    page,               \* fetch_all_pages: page
    all_items,          \* fetch_all_pages: all_items
    fetch_done,         \* fetch_all_pages: the loop has been left
    reqLog,             \* the session.get calls of the current fetch_all_pages
    posts,              \* main: posts
    category_dict,      \* main: category_dict
    tag_dict,           \* main: tag_dict
    csv_data,           \* main: csv_data
    media_log,          \* per built row: what get_image_url did
    st_log,             \* st.error / st.warning calls, in order
    df                  \* the exported table

vars == <<pc, categories_option, tags_option, probe, retry_count, last_retries, page,
          all_items, fetch_done, reqLog, posts, category_dict, tag_dict,
          csv_data, media_log, st_log, df>>

----------------------------------------------------------------------------
(* Bounds of the model *)

\* largest total-page count the site reports in X-WP-TotalPages
MaxPages == 2

----------------------------------------------------------------------------
(* The site *)

\* a response with a status code
Resp(s) == [status_code |-> s]
\* connection error or timeout on one attempt
NetErr == [error |-> "ConnectionError"]
\* requests.exceptions.RequestException raised to the caller
Exc == [exception |-> "RequestException"]
\* no request was made
NoResp == [skipped |-> TRUE]

Ok == Resp(200)

\* what one HTTP attempt can meet
Answers == {Resp(200), Resp(404), Resp(429), Resp(503), NetErr}

\* X-WP-TotalPages of a 200 response: <<>> when the header is not sent
Absent == <<>>
Headers == {Absent} \cup {<<n>> : n \in 0 .. MaxPages}

P1 == [link |-> "u1", title |-> [rendered |-> "t1"], content |-> [rendered |-> "c1"],
       featured_media |-> 0, categories |-> <<1, 2>>, tags |-> <<>>]
P2 == [link |-> "u2", title |-> [rendered |-> "t2"], content |-> [rendered |-> "c2"],
       featured_media |-> 7, categories |-> <<3, 1>>, tags |-> <<2>>,
       embedded |-> [wp_featuredmedia |-> <<[source_url |-> "img7"]>>]]
P3 == [link |-> "u3", title |-> [rendered |-> "t3"], content |-> [rendered |-> "c3"],
       featured_media |-> 8, tags |-> <<2, 1>>,
       embedded |-> [wp_featuredmedia |-> <<[code |-> "rest_forbidden"]>>]]
P4 == [link |-> "u4", title |-> [rendered |-> "t4"], content |-> [rendered |-> "c4"],
       featured_media |-> 9, categories |-> <<>>]

\* bodies of one page of /wp/v2/posts
PostPages == {<<>>, <<P3, P2>>, <<P1, P4>>}

C1a == [id |-> 1, name |-> "News"]
C1b == [id |-> 1, name |-> "Old"]
C2a == [id |-> 2, name |-> "Tech"]

\* bodies of one page of /wp/v2/categories
CategoryPages == {<<C1a>>, <<C2a, C1b>>}

T1a == [id |-> 1, name |-> "alpha"]
T2a == [id |-> 2, name |-> "beta"]

\* bodies of one page of /wp/v2/tags
TagPages == {<<T2a>>, <<T1a, T2a>>}

\* bodies of /wp/v2/media/{id}
MediaBodies == {[source_url |-> "media_url"], [code |-> "no_source"]}

----------------------------------------------------------------------------
(* The transport: Retry(total=3, backoff_factor=1, status_forcelist=...) *)

RetryTotal == 3

status_forcelist == {429, 500, 502, 503, 504}

\* an attempt the adapter would retry if it had retries left
Retryable(a) ==
    IF "status_code" \in DOMAIN a THEN a.status_code \in status_forcelist ELSE TRUE

ShouldRetryTwice(n, a) == Retryable(a) /\ n < RetryTotal - 1

\* the adapter retries: it sleeps and sends the request again
ShouldRetry(n, a) == Retryable(a) /\ n < RetryTotal

\* what session.get hands to its caller once the adapter stops retrying:
\* a response with that status, or an exception (ConnectionError for a
\* network failure, RetryError when the forcelist retries are used up)
Outcome(a) == IF Retryable(a) THEN Exc ELSE a

\* requests.get of the validator: default adapter, no retries
PlainOutcome(a) == IF a = NetErr THEN Exc ELSE a

----------------------------------------------------------------------------
(* Helpers *)

\* dict.get(key, default)
Get(d, key, default) == IF key \in DOMAIN d THEN d[key] ELSE default

StError(about) == [level |-> "error", about |-> about]
StWarning(about) == [level |-> "warning", about |-> about]

ItemName(p) == IF p = "posts" THEN "articles" ELSE p

PagesOf(p) ==
    IF p = "posts" THEN PostPages
    ELSE IF p = "categories" THEN CategoryPages ELSE TagPages

----------------------------------------------------------------------------
(* validate_wordpress_site *)

ValidOnAnyResponse(has_scheme, has_netloc, a) ==
    has_scheme /\ has_netloc /\ PlainOutcome(a) # Exc

\* is_valid_url of validate_wordpress_site; a is the answer to the probe
\* and is not looked at when the URL is malformed
is_valid_url(has_scheme, has_netloc, a) ==
    has_scheme /\ has_netloc /\ PlainOutcome(a) = Ok

Init ==
    /\ pc = "start"
    /\ categories_option \in BOOLEAN
    /\ tags_option \in BOOLEAN
    /\ probe = <<>>
    /\ retry_count = 0
    /\ last_retries = 0
    /\ page = 1
    /\ all_items = <<>>
    /\ fetch_done = FALSE
    /\ reqLog = <<>>
    /\ posts = <<>>
    /\ category_dict = <<>>
    /\ tag_dict = <<>>
    /\ csv_data = <<>>
    /\ media_log = <<>>
    /\ st_log = <<>>
    /\ df = <<>>

\* main, lines 141-158: button pressed, validation, session set-up
Validate ==
    /\ pc = "start"
    /\ \E has_scheme \in BOOLEAN, has_netloc \in BOOLEAN, a \in Answers :
        /\ probe' = IF has_scheme /\ has_netloc THEN <<a>> ELSE <<>>
        /\ IF is_valid_url(has_scheme, has_netloc, a)
           THEN /\ pc' = "posts"
                /\ st_log' = st_log
           ELSE /\ pc' = "invalid"
                /\ st_log' = Append(st_log, StError("validation"))
    /\ UNCHANGED <<categories_option, tags_option, retry_count, last_retries, page, all_items,
                   fetch_done, reqLog, posts, category_dict, tag_dict, csv_data,
                   media_log, df>>

----------------------------------------------------------------------------
(* fetch_all_pages *)

Fetching == pc \in {"posts", "categories", "tags"} /\ ~fetch_done

DefaultTwoPages(hdr) == IF hdr = Absent THEN 2 ELSE hdr[1]

\* int(response.headers.get('X-WP-TotalPages', 1))
total_pages(hdr) == IF hdr = Absent THEN 1 ELSE hdr[1]

OnePageMore(p, total) == p > total

\* if page >= total_pages: break
LastPage(p, total) == p >= total

BreakOnExceptionOnly(status) == status = Exc

\* the break after st.error, in the else branch and in the except branch
BreakOnError(status) == TRUE

\* one pass of the while loop whose session.get returned a 200 response
FetchPageOk ==
    /\ Fetching
    /\ \E a \in Answers, items \in PagesOf(pc), hdr \in Headers :
        /\ ~ShouldRetry(retry_count, a)
        /\ Outcome(a) = Ok
        /\ all_items' = all_items \o items
        /\ reqLog' = Append(reqLog, [page |-> page, status |-> Ok,
                                     items |-> items, hdr |-> hdr])
        /\ IF LastPage(page, total_pages(hdr))
           THEN fetch_done' = TRUE /\ page' = page
           ELSE fetch_done' = FALSE /\ page' = page + 1
    /\ retry_count' = 0
    /\ last_retries' = retry_count
    /\ UNCHANGED <<pc, categories_option, tags_option, probe, posts,
                   category_dict, tag_dict, csv_data, media_log, st_log, df>>

\* one pass of the while loop whose session.get returned another status or
\* raised a RequestException
FetchPageError ==
    /\ Fetching
    /\ \E a \in Answers :
        /\ ~ShouldRetry(retry_count, a)
        /\ Outcome(a) # Ok
        /\ reqLog' = Append(reqLog, [page |-> page, status |-> Outcome(a),
                                     items |-> <<>>, hdr |-> Absent])
        /\ st_log' = Append(st_log, StError(ItemName(pc)))
        /\ fetch_done' = BreakOnError(Outcome(a))
    /\ retry_count' = 0
    /\ last_retries' = retry_count
    /\ UNCHANGED <<pc, categories_option, tags_option, probe, page, all_items,
                   posts, category_dict, tag_dict, csv_data, media_log, df>>

----------------------------------------------------------------------------
(* fetch_all_categories, fetch_all_tags: the ID -> name dictionary *)

\* {cat['id']: cat['name'] for cat in categories}
RECURSIVE MakeDict(_)
MakeDict(items) ==
    IF items = <<>> THEN <<>>
    ELSE LET n == Len(items)
             before == MakeDict(SubSeq(items, 1, n - 1))
         IN  (items[n].id :> items[n].name) @@ before

----------------------------------------------------------------------------
(* main: what follows each fetch *)

ResetFrame ==
    /\ page' = 1
    /\ all_items' = <<>>
    /\ fetch_done' = FALSE
    /\ reqLog' = <<>>

NoArticlesOrFailed(ps) ==
    ps = <<>> \/ (reqLog # <<>> /\ reqLog[Len(reqLog)].status # Ok)

\* if not posts
NoArticles(ps) == ps = <<>>

\* main, lines 158-172 up to the next fetch
ReturnPosts ==
    /\ pc = "posts" /\ fetch_done
    /\ posts' = all_items
    /\ IF NoArticles(all_items)
       THEN /\ pc' = "no_articles"
            /\ st_log' = Append(st_log, StWarning("no_articles"))
       ELSE /\ pc' = IF categories_option THEN "categories"
                     ELSE IF tags_option THEN "tags" ELSE "rows"
            /\ st_log' = st_log
    /\ ResetFrame
    /\ last_retries' = 0
    /\ UNCHANGED <<categories_option, tags_option, probe, retry_count,
                   category_dict, tag_dict, csv_data, media_log, df>>

\* main, lines 166-172
ReturnCategories ==
    /\ pc = "categories" /\ fetch_done
    /\ category_dict' = MakeDict(all_items)
    /\ pc' = IF tags_option THEN "tags" ELSE "rows"
    /\ ResetFrame
    /\ last_retries' = 0
    /\ UNCHANGED <<categories_option, tags_option, probe, retry_count, posts,
                   tag_dict, csv_data, media_log, st_log, df>>

\* main, lines 170-176
ReturnTags ==
    /\ pc = "tags" /\ fetch_done
    /\ tag_dict' = MakeDict(all_items)
    /\ pc' = "rows"
    /\ ResetFrame
    /\ last_retries' = 0
    /\ UNCHANGED <<categories_option, tags_option, probe, retry_count, posts,
                   category_dict, csv_data, media_log, st_log, df>>

----------------------------------------------------------------------------
(* get_image_url *)

\* post.get('featured_media') is truthy
HasFeaturedMedia(post) == Get(post, "featured_media", 0) # 0

\* post.get('_embedded', {}).get('wp:featuredmedia', [])
embedded_media(post) == Get(Get(post, "embedded", <<>>), "wp_featuredmedia", <<>>)

\* embedded_media and 'source_url' in embedded_media[0]
EmbeddedHasUrl(post) ==
    /\ embedded_media(post) # <<>>
    /\ "source_url" \in DOMAIN embedded_media(post)[1]

FallbackWheneverFeatured(post) == HasFeaturedMedia(post)

\* the else branch of line 117 is taken: session.get(media_url) is called
NeedsFallback(post) == HasFeaturedMedia(post) /\ ~EmbeddedHasUrl(post)

\* the responses get_image_url can be handed for a post, once the adapter has
\* stopped retrying: none when it makes no request
MediaResponses(post, n) ==
    IF ~NeedsFallback(post)
    THEN {[status |-> NoResp, body |-> <<>>]}
    ELSE {[status |-> Outcome(a), body |-> <<>>] :
              a \in {b \in Answers : ~ShouldRetry(n, b) /\ Outcome(b) # Ok}}
         \cup
         {[status |-> Ok, body |-> b] : b \in
              IF \E a \in Answers : ~ShouldRetry(n, a) /\ Outcome(a) = Ok
              THEN MediaBodies ELSE {}}

\* st.warning is called: only the except branch calls it
MediaWarning(post, resp) == NeedsFallback(post) /\ resp.status = Exc

\* the value get_image_url returns
get_image_url(post, resp) ==
    IF ~HasFeaturedMedia(post) THEN ""
    ELSE IF ~NeedsFallback(post) THEN embedded_media(post)[1].source_url
    ELSE IF resp.status = Ok THEN Get(resp.body, "source_url", "")
    ELSE ""

----------------------------------------------------------------------------
(* main: the row loop and the export *)

\* ', '.join(names)
RECURSIVE Join(_)
Join(names) ==
    IF names = <<>> THEN ""
    ELSE IF Len(names) = 1 THEN names[1]
    ELSE names[1] \o ", " \o Join(Tail(names))

NameOrEmpty(dict, id) == Get(dict, id, "")

\* category_dict.get(cat_id, 'Unknown')
NameOf(dict, id) == Get(dict, id, "Unknown")

\* ', '.join([d.get(i, 'Unknown') for i in ids]), with ids = post.get(key, [])
JoinedNames(post, key, dict) ==
    LET ids == Get(post, key, <<>>)
    IN  Join([i \in 1 .. Len(ids) |-> NameOf(dict, ids[i])])

TagsFollowCategories(cats_on, tags_on) == cats_on

\* if tags_option: post_data['tags'] = tag_names
HasTagsField(cats_on, tags_on) == tags_on

\* post_data of one pass of the for loop
PostData(post, image_url) ==
    LET base == [url |-> Get(post, "link", ""),
                 title |-> Get(Get(post, "title", <<>>), "rendered", ""),
                 content |-> Get(Get(post, "content", <<>>), "rendered", ""),
                 image_url |-> image_url]
        withCats == IF categories_option
                    THEN ("categories" :> JoinedNames(post, "categories", category_dict)) @@ base
                    ELSE base
    IN  IF HasTagsField(categories_option, tags_option)
        THEN ("tags" :> JoinedNames(post, "tags", tag_dict)) @@ withCats
        ELSE withCats

index == Len(csv_data) + 1

InRowLoop == pc = "rows" /\ index <= Len(posts)

\* one pass of the for loop of lines 179-216
BuildRow ==
    /\ InRowLoop
    /\ LET post == posts[index] IN
        \E resp \in MediaResponses(post, retry_count) :
            /\ csv_data' = Append(csv_data, PostData(post, get_image_url(post, resp)))
            /\ media_log' = Append(media_log,
                    [requests |-> IF NeedsFallback(post)
                                  THEN <<post.featured_media>> ELSE <<>>,
                     status |-> resp.status,
                     body |-> resp.body,
                     warned |-> MediaWarning(post, resp)])
            /\ st_log' = IF MediaWarning(post, resp)
                         THEN Append(st_log, StWarning("media"))
                         ELSE st_log
    /\ retry_count' = 0
    /\ last_retries' = retry_count
    /\ UNCHANGED <<pc, categories_option, tags_option, probe, page, all_items,
                   fetch_done, reqLog, posts, category_dict, tag_dict, df>>

\* main, lines 218-233: the loop is over, the table is built and offered
Export ==
    /\ pc = "rows" /\ index > Len(posts)
    /\ df' = csv_data
    /\ pc' = "exported"
    /\ last_retries' = 0
    /\ UNCHANGED <<categories_option, tags_option, probe, retry_count, page,
                   all_items, fetch_done, reqLog, posts, category_dict, tag_dict,
                   csv_data, media_log, st_log>>

\* the columns pd.DataFrame gives the table: the keys of its rows
Columns(table) == UNION {DOMAIN table[i] : i \in 1 .. Len(table)}

----------------------------------------------------------------------------
(* The adapter retrying the pending session.get *)

RequestPending == Fetching \/ (InRowLoop /\ NeedsFallback(posts[index]))

TransportRetry ==
    /\ RequestPending
    /\ \E a \in Answers : ShouldRetry(retry_count, a)
    /\ retry_count' = retry_count + 1
    /\ UNCHANGED <<last_retries, pc, categories_option, tags_option, probe, page, all_items,
                   fetch_done, reqLog, posts, category_dict, tag_dict, csv_data,
                   media_log, st_log, df>>

----------------------------------------------------------------------------

Next ==
    \/ Validate
    \/ TransportRetry
    \/ FetchPageOk
    \/ FetchPageError
    \/ ReturnPosts
    \/ ReturnCategories
    \/ ReturnTags
    \/ BuildRow
    \/ Export

Spec == Init /\ [][Next]_vars

----------------------------------------------------------------------------
(* Vocabulary of the properties *)

InFetch == pc \in {"posts", "categories", "tags"}

RECURSIVE Flatten(_)
\* the item arrays of the logged requests, one after the other
Flatten(log) ==
    IF log = <<>> THEN <<>> ELSE log[1].items \o Flatten(Tail(log))

RECURSIVE SumLen(_)
SumLen(log) ==
    IF log = <<>> THEN 0 ELSE Len(log[1].items) + SumLen(Tail(log))

\* st.error calls made for one resource
ErrorCount(about) ==
    Cardinality({i \in 1 .. Len(st_log) : st_log[i] = StError(about)})

\* every request of the current fetch got a 200 whose header reported n pages
ReportedTotal(n) ==
    /\ reqLog # <<>>
    /\ \A i \in 1 .. Len(reqLog) : reqLog[i].status = Ok /\ reqLog[i].hdr = <<n>>

PagesInOrder == \A i \in 1 .. Len(reqLog) : reqLog[i].page = i

----------------------------------------------------------------------------
(* C1 *)

\* C1 as stated: when every response is a 200 reporting N total pages, the
\* fetch ends after exactly N requests, for pages 1..N in order, and the
\* accumulated list is the concatenation of the page arrays.
C1_ExactlyNRequests ==
    \A n \in 0 .. MaxPages :
        (InFetch /\ fetch_done /\ ReportedTotal(n)) =>
            /\ Len(reqLog) = n
            /\ PagesInOrder
            /\ all_items = Flatten(reqLog)
            /\ Len(all_items) = SumLen(reqLog)

\* C1 amended: when every response is a 200 reporting N total pages, the
\* fetch issues requests for pages 1, 2, ... in order, never more than
\* max(N, 1) of them, and has ended exactly when max(N, 1) have been made
\* (N requests for N >= 1, one request when the site reports 0 pages); the
\* accumulated list is the concatenation of the page arrays in page order.
C1_RequestsMaxNOne ==
    \A n \in 0 .. MaxPages :
        (InFetch /\ ReportedTotal(n)) =>
            /\ Len(reqLog) <= (IF n = 0 THEN 1 ELSE n)
            /\ fetch_done <=> (Len(reqLog) = (IF n = 0 THEN 1 ELSE n))
            /\ PagesInOrder
            /\ all_items = Flatten(reqLog)
            /\ Len(all_items) = SumLen(reqLog)

\* a two-page fetch of posts that ended without error, four posts long
C1_Witness ==
    /\ pc = "posts" /\ fetch_done /\ ReportedTotal(2)
    /\ Len(reqLog) = 2
    /\ all_items = <<P3, P2, P1, P4>>

----------------------------------------------------------------------------
(* C2 *)

\* C2: a request of fetch_all_pages that ends in a non-200 response or an
\* exception is the last request of the fetch: the loop is left, exactly one
\* error has been surfaced for the resource, and the accumulated list is the
\* concatenation of the pages before the failed one.
C2_StopsAtFailedPage ==
    \A k \in 1 .. Len(reqLog) :
        reqLog[k].status # Ok =>
            /\ k = Len(reqLog)
            /\ reqLog[k].page = k
            /\ fetch_done
            /\ InFetch /\ ErrorCount(ItemName(pc)) = 1
            /\ all_items = Flatten(SubSeq(reqLog, 1, k - 1))

\* page 2 of the posts answered 404 after page 1 had delivered two posts
C2_Witness ==
    /\ pc = "posts" /\ fetch_done
    /\ Len(reqLog) = 2
    /\ reqLog[2].status = Resp(404)
    /\ all_items = <<P3, P2>>

----------------------------------------------------------------------------
(* C3 *)

\* an error of fetch_all_pages has been surfaced for one of the resources
PageErrorSurfaced ==
    \E i \in 1 .. Len(st_log) :
        st_log[i] \in {StError("articles"), StError("categories"), StError("tags")}

\* C3 as stated: once a page-fetch error has been surfaced, for whichever
\* resource and page, the run is never ended before row building and export.
C3_ErrorNeverEndsRun ==
    PageErrorSurfaced => pc \notin {"invalid", "no_articles"}

\* C3 amended: a page-fetch error in the categories or tags fetch, or in the
\* posts fetch after at least one post was accumulated, does not end the run:
\* the run goes on to build one row per accumulated post and to export them.
\* Only when the posts fetch returns an empty list (in particular when its
\* first page fails) does the run end, with the "No articles found" warning
\* and no export.
C3_ErrorEndsRunOnlyWithoutPosts ==
    PageErrorSurfaced =>
        /\ pc # "invalid"
        /\ pc = "no_articles" =>
              /\ posts = <<>>
              /\ st_log[Len(st_log)] = StWarning("no_articles")
              /\ df = <<>>
        /\ pc \in {"categories", "tags", "rows", "exported"} => posts # <<>>
        /\ pc = "rows" => (Len(csv_data) < Len(posts) => ENABLED BuildRow)
                          /\ (Len(csv_data) = Len(posts) => ENABLED Export)
        /\ pc = "exported" => Len(df) = Len(posts)

\* exported although the posts fetch failed on page 2 and the categories
\* fetch failed on page 1
C3_Witness ==
    /\ pc = "exported"
    /\ ErrorCount("articles") = 1
    /\ ErrorCount("categories") = 1
    /\ category_dict = <<>>
    /\ Len(df) = 2

----------------------------------------------------------------------------
(* C4 *)

\* C4: for every built row, get_image_url made no request and returned ""
\* when the post has no featured media; made no request and returned the
\* embedded source_url when the embedded payload carries one; and made
\* exactly one request, for the post's media id, otherwise.  No retry of the
\* adapter is pending while the next post needs no request.
C4_MediaPrecedence ==
    /\ Len(media_log) = Len(csv_data)
    /\ \A i \in 1 .. Len(csv_data) :
        LET post == posts[i]
            fm == IF "featured_media" \in DOMAIN post THEN post.featured_media ELSE 0
            emb == IF "embedded" \in DOMAIN post
                   THEN post.embedded.wp_featuredmedia ELSE <<>>
            hasUrl == emb # <<>> /\ "source_url" \in DOMAIN emb[1]
        IN  /\ fm = 0 =>
                media_log[i].requests = <<>> /\ csv_data[i].image_url = ""
            /\ (fm # 0 /\ hasUrl) =>
                /\ media_log[i].requests = <<>>
                /\ csv_data[i].image_url = emb[1].source_url
            /\ (fm # 0 /\ ~hasUrl) => media_log[i].requests = <<fm>>
    /\ (InRowLoop /\ retry_count > 0) =>
           /\ posts[index].featured_media # 0
           /\ \/ "embedded" \notin DOMAIN posts[index]
              \/ "source_url" \notin DOMAIN posts[index].embedded.wp_featuredmedia[1]

\* rows built for P3 (fallback request), P2 (embedded URL), P1 (no featured
\* media) and P4 (fallback request)
C4_Witness ==
    /\ posts = <<P3, P2, P1, P4>>
    /\ Len(csv_data) = 4
    /\ media_log[1].requests = <<8>>
    /\ media_log[2].requests = <<>> /\ csv_data[2].image_url = "img7"
    /\ media_log[3].requests = <<>> /\ csv_data[3].image_url = ""
    /\ media_log[4].requests = <<9>>

----------------------------------------------------------------------------
(* C5 *)

\* C5 as stated: whenever the fallback request of get_image_url ends in a
\* non-200 response or in an exception, a warning is emitted and the row is
\* produced with an empty image_url.
C5_FallbackFailureWarns ==
    \A i \in 1 .. Len(media_log) :
        (media_log[i].requests # <<>> /\ media_log[i].status # Ok) =>
            /\ media_log[i].warned
            /\ csv_data[i].image_url = ""

----------------------------------------------------------------------------
(* C6 *)

\* C6: the validator sends at most one probe; a run whose validation failed
\* has reported the validation error and nothing else and has made no
\* request through the session; and whenever the run is past validation, or
\* any request of a fetch or of the media resolver has been made or is being
\* retried, the probe was answered 200.
C6_ValidationFirst ==
    /\ Len(probe) <= 1
    /\ pc = "invalid" =>
          /\ probe # <<Ok>>
          /\ st_log = <<StError("validation")>>
          /\ reqLog = <<>> /\ media_log = <<>> /\ retry_count = 0
          /\ posts = <<>> /\ csv_data = <<>> /\ df = <<>>
    /\ pc \notin {"start", "invalid"} => probe = <<Ok>>
    /\ (reqLog # <<>> \/ media_log # <<>> \/ retry_count > 0) => probe = <<Ok>>
    /\ pc = "start" => (reqLog = <<>> /\ media_log = <<>> /\ retry_count = 0)

\* the probe was answered 503 once and the run ended
C6_Witness ==
    /\ pc = "invalid"
    /\ probe = <<Resp(503)>>

----------------------------------------------------------------------------
(* C7 *)

\* the statuses the transport is to retry
RetriedStatuses == {429, 500, 502, 503, 504}

\* the result of the last session.get of the current fetch, if any
LastFetchResult == reqLog[Len(reqLog)].status

\* C7: a session.get of the fetcher or of the media resolver raises to its
\* caller only after the adapter has made 3 retries, and never hands a
\* response with status 429, 500, 502, 503 or 504 to its caller; so a server
\* that answers up to 3 times with such a status and then with 200 is seen
\* by the caller as answering 200.  When every request of the fetch so far was
\* seen as a 200, however many retries it took, no error has been surfaced
\* for the resource, every body is in the accumulated list, and the loop has
\* either ended or moved to the next page; a media request seen as a 200
\* raises no warning and its body gives the image URL.
C7_RetriesThenSuccess ==
    /\ retry_count <= 3 /\ last_retries <= 3
    /\ (InFetch /\ reqLog # <<>>) =>
          /\ LastFetchResult = Exc => last_retries = 3
          /\ "status_code" \in DOMAIN LastFetchResult =>
                LastFetchResult.status_code \notin RetriedStatuses
          /\ (\A i \in 1 .. Len(reqLog) : reqLog[i].status = Ok) =>
                /\ ErrorCount(ItemName(pc)) = 0
                /\ all_items = Flatten(reqLog)
                /\ fetch_done \/ page = Len(reqLog) + 1
    /\ \A i \in 1 .. Len(media_log) :
          LET m == media_log[i]
          IN  m.requests # <<>> =>
                /\ (m.status = Exc /\ i = Len(media_log) /\ pc = "rows") =>
                      last_retries = 3
                /\ "status_code" \in DOMAIN m.status =>
                      m.status.status_code \notin RetriedStatuses
                /\ m.status = Ok =>
                      /\ ~m.warned
                      /\ csv_data[i].image_url =
                            (IF "source_url" \in DOMAIN m.body
                             THEN m.body.source_url ELSE "")

\* page 1 of the posts was seen as a 200 after 2 retries, without an error,
\* and the loop has moved to page 2
C7_Witness ==
    /\ pc = "posts" /\ ~fetch_done
    /\ Len(reqLog) = 1 /\ reqLog[1].status = Ok
    /\ last_retries = 2
    /\ page = 2
    /\ all_items = <<P3, P2>>
    /\ st_log = <<>>

----------------------------------------------------------------------------
(* C8 *)

\* the dictionary the rows of one option are resolved against
RECURSIVE C8_Joined(_, _)
C8_Joined(ids, dict) ==
    IF ids = <<>> THEN ""
    ELSE LET name == IF ids[1] \in DOMAIN dict THEN dict[ids[1]] ELSE "Unknown"
         IN  IF Len(ids) = 1 THEN name
             ELSE name \o ", " \o C8_Joined(Tail(ids), dict)

C8_RowsResolved ==
    \A i \in 1 .. Len(csv_data) :
        LET post == posts[i]
            cat_ids == IF "categories" \in DOMAIN post THEN post.categories ELSE <<>>
            tag_ids == IF "tags" \in DOMAIN post THEN post.tags ELSE <<>>
        IN  /\ categories_option =>
                /\ csv_data[i].categories = C8_Joined(cat_ids, category_dict)
                /\ cat_ids = <<>> => csv_data[i].categories = ""
            /\ tags_option =>
                /\ csv_data[i].tags = C8_Joined(tag_ids, tag_dict)
                /\ tag_ids = <<>> => csv_data[i].tags = ""

C8_DictsReadOnly ==
    pc = "rows" => (category_dict' = category_dict /\ tag_dict' = tag_dict)

\* C8: in every built row and for every enabled option, the field is the
\* post's ID list rendered in order and joined by ", ", an ID of the
\* dictionary as its name and any other ID as "Unknown", and is the empty
\* string for an empty or missing ID list; and no step of the row loop
\* changes category_dict or tag_dict.
C8_IdResolution == []C8_RowsResolved /\ [][C8_DictsReadOnly]_vars

\* P2 (categories 3, 1) resolved against {1: News}: one unknown, one known
\* ID; P3 (no categories key) gives the empty string
C8_Witness ==
    /\ categories_option /\ tags_option
    /\ Len(csv_data) >= 2
    /\ posts[1] = P3 /\ posts[2] = P2
    /\ category_dict = (1 :> "News")
    /\ csv_data[1].categories = ""
    /\ csv_data[2].categories = "Unknown, News"
    /\ csv_data[1].tags = "beta, alpha"

----------------------------------------------------------------------------
(* C9 *)

\* C9: the rows built so far are built from the posts in fetch order, one
\* per post, each with a categories field exactly when categories_option is
\* set and a tags field exactly when tags_option is set; the exported table
\* is the list of these rows and has one row per fetched post.
C9_ExportShape ==
    /\ Len(csv_data) <= Len(posts)
    /\ \A i \in 1 .. Len(csv_data) :
          /\ csv_data[i].url = posts[i].link
          /\ csv_data[i].title = posts[i].title.rendered
          /\ csv_data[i].content = posts[i].content.rendered
          /\ ("categories" \in DOMAIN csv_data[i]) <=> categories_option
          /\ ("tags" \in DOMAIN csv_data[i]) <=> tags_option
    /\ pc = "exported" =>
          /\ df = csv_data
          /\ Len(df) = Len(posts)
          /\ Columns(df) = {"url", "title", "content", "image_url"}
                             \cup (IF categories_option THEN {"categories"} ELSE {})
                             \cup (IF tags_option THEN {"tags"} ELSE {})
    /\ pc # "exported" => df = <<>>

\* two pages of posts exported with categories on and tags off
C9_Witness ==
    /\ pc = "exported"
    /\ categories_option /\ ~tags_option
    /\ posts = <<P1, P4, P3, P2>>
    /\ Len(df) = 4
    /\ Columns(df) = {"url", "title", "content", "image_url", "categories"}

----------------------------------------------------------------------------
(* C10 *)

\* every request of the current fetch got a 200 without the header
NoTotalHeader ==
    /\ reqLog # <<>>
    /\ \A i \in 1 .. Len(reqLog) : reqLog[i].status = Ok /\ reqLog[i].hdr = Absent

\* C10: when the 200 responses carry no X-WP-TotalPages header, the fetch
\* makes one request, for page 1, and ends with the items of that page and
\* without an error for the resource.
C10_MissingHeaderOnePage ==
    (InFetch /\ NoTotalHeader) =>
        /\ Len(reqLog) = 1
        /\ reqLog[1].page = 1
        /\ fetch_done
        /\ all_items = reqLog[1].items
        /\ ErrorCount(ItemName(pc)) = 0

\* the posts page without the header delivered two posts and the loop ended
C10_Witness ==
    /\ pc = "posts" /\ fetch_done
    /\ NoTotalHeader
    /\ all_items = <<P1, P4>>

====
